---- MODULE Spec2Model ----
(***************************************************************************)
(* A model of the Veo video-generation front end.                          *)
(*                                                                         *)
(* Spec models src/index.tsx: the event handlers of the page (prompt       *)
(* input, generate click, API-key modal), the async functions generate()   *)
(* and generateContent() cut at their await points, the provider's         *)
(* answers, and the two timers (the 1 s poll delay and the 4 s progress    *)
(* interval) counted in ticks of one second.  SpecLegacy models the older  *)
(* page script src/unnamed/part_000, SpecProgress models long attempts of  *)
(* src/index.tsx (many polls, many progress messages) and SpecUpload its   *)
(* image selection.                                                        *)
(*                                                                         *)
(* Texts are sequences of one-character strings, so that trim(),           *)
(* toLowerCase() and includes() are computed as the code computes them.    *)
(***************************************************************************)
EXTENDS Integers, Sequences, FiniteSets, TLC

(***************************************************************************)
(* Bounds of the model.                                                    *)
(***************************************************************************)
\* most videos the provider returns in one operation
MaxVideos == 2
\* most status queries the provider answers with Pending in one attempt
MaxPolls == 2
\* most progress messages delivered in one attempt
MaxMessages == 1
\* concurrent invocations of generate() the model has room for
MaxAttempts == 2
\* how many times the provider answers Pending in one attempt of SpecProgress
MaxProgressPolls == 9
\* how many times the interval callback runs in one attempt of SpecProgress
MaxProgressMessages == 8

(***************************************************************************)
(* Program constants.                                                      *)
(***************************************************************************)
\* delay(1000): ticks of one second
POLL_DELAY == 1
\* setInterval(..., 4000): ticks of one second
MESSAGE_INTERVAL == 4

\* "Warming up the video engine..."
MSG_WARMING ==
  <<"W","a","r","m","i","n","g"," ","u","p"," ","t","h","e"," ","v","i","d",
    "e","o"," ","e","n","g","i","n","e",".",".",".">>

\* "Storyboarding your prompt..."
MSG_STORYBOARDING ==
  <<"S","t","o","r","y","b","o","a","r","d","i","n","g"," ","y","o","u","r",
    " ","p","r","o","m","p","t",".",".",".">>

\* "Consulting with the digital muses..."
MSG_CONSULTING ==
  <<"C","o","n","s","u","l","t","i","n","g"," ","w","i","t","h"," ","t","h",
    "e"," ","d","i","g","i","t","a","l"," ","m","u","s","e","s",".",".",".">>

\* "Rendering the first few frames..."
MSG_RENDERING ==
  <<"R","e","n","d","e","r","i","n","g"," ","t","h","e"," ","f","i","r","s",
    "t"," ","f","e","w"," ","f","r","a","m","e","s",".",".",".">>

\* "This is taking a moment, hang tight..."
MSG_HANG_TIGHT ==
  <<"T","h","i","s"," ","i","s"," ","t","a","k","i","n","g"," ","a"," ","m",
    "o","m","e","n","t",","," ","h","a","n","g"," ","t","i","g","h","t",".",
    ".",".">>

\* "Adding a touch of cinematic magic..."
MSG_CINEMATIC ==
  <<"A","d","d","i","n","g"," ","a"," ","t","o","u","c","h"," ","o","f"," ",
    "c","i","n","e","m","a","t","i","c"," ","m","a","g","i","c",".",".",".">>

\* "Almost there, polishing the final cut..."
MSG_ALMOST ==
  <<"A","l","m","o","s","t"," ","t","h","e","r","e",","," ","p","o","l","i",
    "s","h","i","n","g"," ","t","h","e"," ","f","i","n","a","l"," ","c","u",
    "t",".",".",".">>

\* "Please add your Gemini API key in the settings."
TXT_ADD_KEY ==
  <<"P","l","e","a","s","e"," ","a","d","d"," ","y","o","u","r"," ","G","e",
    "m","i","n","i"," ","A","P","I"," ","k","e","y"," ","i","n"," ","t","h",
    "e"," ","s","e","t","t","i","n","g","s",".">>

\* "API key not found."
ERR_KEY_NOT_FOUND ==
  <<"A","P","I"," ","k","e","y"," ","n","o","t"," ","f","o","u","n","d",".">>

\* "No videos generated"
ERR_NO_VIDEOS ==
  <<"N","o"," ","v","i","d","e","o","s"," ","g","e","n","e","r","a","t","e",
    "d">>

\* "Failed to download video: "
ERR_DOWNLOAD_PREFIX ==
  <<"F","a","i","l","e","d"," ","t","o"," ","d","o","w","n","l","o","a","d",
    " ","v","i","d","e","o",":"," ">>

\* "API Key saved. Ready to generate."
TXT_KEY_SAVED ==
  <<"A","P","I"," ","K","e","y"," ","s","a","v","e","d","."," ","R","e","a",
    "d","y"," ","t","o"," ","g","e","n","e","r","a","t","e",".">>

\* "API Key removed."
TXT_KEY_REMOVED ==
  <<"A","P","I"," ","K","e","y"," ","r","e","m","o","v","e","d",".">>

\* "Please enter a prompt."
TXT_ENTER_PROMPT ==
  <<"P","l","e","a","s","e"," ","e","n","t","e","r"," ","a"," ","p","r","o",
    "m","p","t",".">>

\* "Initializing..."
TXT_INITIALIZING ==
  <<"I","n","i","t","i","a","l","i","z","i","n","g",".",".",".">>

\* "Done. Video downloaded."
TXT_DONE ==
  <<"D","o","n","e","."," ","V","i","d","e","o"," ","d","o","w","n","l","o",
    "a","d","e","d",".">>

\* "An unknown error occurred."
TXT_UNKNOWN_ERROR ==
  <<"A","n"," ","u","n","k","n","o","w","n"," ","e","r","r","o","r"," ","o",
    "c","c","u","r","r","e","d",".">>

\* "Quota limit reached. Please try again later or add your own API key."
TXT_QUOTA ==
  <<"Q","u","o","t","a"," ","l","i","m","i","t"," ","r","e","a","c","h","e",
    "d","."," ","P","l","e","a","s","e"," ","t","r","y"," ","a","g","a","i",
    "n"," ","l","a","t","e","r"," ","o","r"," ","a","d","d"," ","y","o","u",
    "r"," ","o","w","n"," ","A","P","I"," ","k","e","y",".">>

\* "Request failed. Please check your API key and prompt, then try again."
TXT_REQUEST_FAILED ==
  <<"R","e","q","u","e","s","t"," ","f","a","i","l","e","d","."," ","P","l",
    "e","a","s","e"," ","c","h","e","c","k"," ","y","o","u","r"," ","A","P",
    "I"," ","k","e","y"," ","a","n","d"," ","p","r","o","m","p","t",","," ",
    "t","h","e","n"," ","t","r","y"," ","a","g","a","i","n",".">>

\* "Generating..."
TXT_GENERATING ==
  <<"G","e","n","e","r","a","t","i","n","g",".",".",".">>

\* "Generate"
TXT_GENERATE ==
  <<"G","e","n","e","r","a","t","e">>

\* "429"
TOK_429 ==
  <<"4","2","9">>

\* "quota"
TOK_QUOTA ==
  <<"q","u","o","t","a">>

\* "400"
TOK_400 ==
  <<"4","0","0">>

\* "api key"
TOK_API_KEY ==
  <<"a","p","i"," ","k","e","y">>

\* "{\"error\":{\"code\":429,\"message\":\"rate limited\"}}"
PROVIDER_ERR_429 ==
  <<"{","\"","e","r","r","o","r","\"",":","{","\"","c","o","d","e","\"",":",
    "4","2","9",",","\"","m","e","s","s","a","g","e","\"",":","\"","r","a",
    "t","e"," ","l","i","m","i","t","e","d","\"","}","}">>

\* "{\"error\":{\"code\":400,\"message\":\"bad key\"}}"
PROVIDER_ERR_400 ==
  <<"{","\"","e","r","r","o","r","\"",":","{","\"","c","o","d","e","\"",":",
    "4","0","0",",","\"","m","e","s","s","a","g","e","\"",":","\"","b","a",
    "d"," ","k","e","y","\"","}","}">>

\* "{\"error\":{\"code\":500,\"message\":\"internal\"}}"
PROVIDER_ERR_500 ==
  <<"{","\"","e","r","r","o","r","\"",":","{","\"","c","o","d","e","\"",":",
    "5","0","0",",","\"","m","e","s","s","a","g","e","\"",":","\"","i","n",
    "t","e","r","n","a","l","\"","}","}">>

\* "{\"error\":{\"code\":400,\"message\":\"quota project not set\"}}"
PROVIDER_ERR_400_QUOTA ==
  <<"{","\"","e","r","r","o","r","\"",":","{","\"","c","o","d","e","\"",":",
    "4","0","0",",","\"","m","e","s","s","a","g","e","\"",":","\"","q","u",
    "o","t","a"," ","p","r","o","j","e","c","t"," ","n","o","t"," ","s","e",
    "t","\"","}","}">>

\* "network down"
NET_ERR_DOWN ==
  <<"n","e","t","w","o","r","k"," ","d","o","w","n">>

\* "Failed to fetch"
NET_ERR_FETCH ==
  <<"F","a","i","l","e","d"," ","t","o"," ","f","e","t","c","h">>

\* "Not Found"
STATUS_TEXT_404 ==
  <<"N","o","t"," ","F","o","u","n","d">>

\* "Too Many Requests"
STATUS_TEXT_429 ==
  <<"T","o","o"," ","M","a","n","y"," ","R","e","q","u","e","s","t","s">>

\* "404"
DIGITS_404 ==
  <<"4","0","4">>

\* "URI malformed"
ERR_URI_MALFORMED ==
  <<"U","R","I"," ","m","a","l","f","o","r","m","e","d">>

(***************************************************************************)
(* Values and string functions.                                            *)
(***************************************************************************)
\* null / undefined
Nothing == <<>>

\* a value that is present
Just(x) == <<x>>

UPPER_CASE ==
  <<"A","B","C","D","E","F","G","H","I","J","K","L","M","N","O","P","Q","R",
    "S","T","U","V","W","X","Y","Z">>

LOWER_CASE ==
  <<"a","b","c","d","e","f","g","h","i","j","k","l","m","n","o","p","q","r",
    "s","t","u","v","w","x","y","z">>

LowerChar(c) ==
  IF \E k \in 1..Len(UPPER_CASE) : UPPER_CASE[k] = c
  THEN LOWER_CASE[CHOOSE k \in 1..Len(UPPER_CASE) : UPPER_CASE[k] = c]
  ELSE c

\* String.prototype.toLowerCase
ToLowerCase(s) == [k \in 1..Len(s) |-> LowerChar(s[k])]

\* String.prototype.includes
Includes(s, t) ==
  \E k \in 0..(Len(s) - Len(t)) : SubSeq(s, k + 1, k + Len(t)) = t

\* Number.prototype.toString: the decimal digits of a natural number
RECURSIVE Digits(_)
Digits(n) ==
  LET d == <<"0","1","2","3","4","5","6","7","8","9">>[(n % 10) + 1] IN
    IF n < 10 THEN <<d>> ELSE Digits(n \div 10) \o <<d>>

IsWhitespace(c) == c \in {" ", "\t", "\n"}

RECURSIVE TrimStart(_)
TrimStart(s) ==
  IF s # <<>> /\ IsWhitespace(Head(s)) THEN TrimStart(Tail(s)) ELSE s

RECURSIVE TrimEnd(_)
TrimEnd(s) ==
  IF s # <<>> /\ IsWhitespace(s[Len(s)])
  THEN TrimEnd(SubSeq(s, 1, Len(s) - 1))
  ELSE s

\* String.prototype.trim
Trim(s) == TrimEnd(TrimStart(s))

\* the percent escapes the model decodes: <<hex digits, character>>
PERCENT_ESCAPES ==
  { <<"2", "6", "&">>, <<"3", "D", "=">>, <<"3", "F", "?">>,
    <<"2", "F", "/">>, <<"2", "5", "%">> }

RECURSIVE UriWellFormed(_)
UriWellFormed(s) ==
  IF s = <<>> THEN TRUE
  ELSE IF Head(s) # "%" THEN UriWellFormed(Tail(s))
  ELSE /\ Len(s) >= 3
       /\ \E e \in PERCENT_ESCAPES : e[1] = s[2] /\ e[2] = s[3]
       /\ UriWellFormed(SubSeq(s, 4, Len(s)))

RECURSIVE UriDecoded(_)
UriDecoded(s) ==
  IF s = <<>> THEN <<>>
  ELSE IF Head(s) # "%" THEN <<Head(s)>> \o UriDecoded(Tail(s))
  ELSE LET e == CHOOSE e \in PERCENT_ESCAPES : e[1] = s[2] /\ e[2] = s[3]
       IN  <<e[3]>> \o UriDecoded(SubSeq(s, 4, Len(s)))

\* decodeURIComponent: Nothing stands for the URIError it throws
DecodeURIComponent(s) ==
  IF UriWellFormed(s) THEN Just(UriDecoded(s)) ELSE Nothing

\* `${url}&key=${apiKey}`
DownloadUrl(url, apiKey) == url \o <<"&", "k", "e", "y", "=">> \o apiKey

\* `Failed to download video: ${res.status} ${res.statusText}`
DownloadErrorMessage(res) ==
  ERR_DOWNLOAD_PREFIX \o res.status \o <<" ">> \o res.statusText

GENERATION_MESSAGES ==
  << MSG_WARMING, MSG_STORYBOARDING, MSG_CONSULTING, MSG_RENDERING,
     MSG_HANG_TIGHT, MSG_CINEMATIC, MSG_ALMOST >>

(***************************************************************************)
(* The environment: what the user types and what the provider answers.     *)
(***************************************************************************)
\* texts the user can type into the prompt field
PromptTexts == { <<>>, <<" ">>, <<"\t", " ">>, <<" ", "a", " ">> }

\* texts the user can type into the API-key field
KeyTexts == { <<>>, <<" ">>, <<" ", "k">> }

\* process.env.API_KEY: undefined, or the key built into the page
ENV_KEY == <<"e">>

\* the URI of the provider's k-th video: "%3D" and k times "v"
VideoUri(k) == <<"%", "3", "D">> \o [j \in 1..k |-> "v"]

\* operation.response?.generatedVideos of a finished operation: the first
\* n videos of the provider, in its order
VideoLists == {[k \in 1..n |-> VideoUri(k)] : n \in 0..MaxVideos}

\* the operation's error member: the provider's ErrorInfo
ErrorInfos ==
  { [code |-> 429, message |-> <<"r","a","t","e"," ","l","i","m","i","t","e","d">>],
    [code |-> 400, message |-> <<"b","a","d"," ","k","e","y">>] }

PendingOperation == [done |-> FALSE, videos |-> Nothing, error |-> Nothing]

CompleteOperations ==
  {[done |-> TRUE, videos |-> Just(vs), error |-> Nothing] : vs \in VideoLists}
    \cup {[done |-> TRUE, videos |-> Nothing, error |-> Nothing]}

FailedOperations ==
  {[done |-> TRUE, videos |-> Nothing, error |-> Just(e)] : e \in ErrorInfos}

\* what generateVideos / getVideosOperation can resolve with
Operations == {PendingOperation} \cup CompleteOperations \cup FailedOperations

\* the messages of the errors an SDK call rejects with
RejectMessages ==
  { PROVIDER_ERR_429, PROVIDER_ERR_400, PROVIDER_ERR_400_QUOTA,
    PROVIDER_ERR_500, NET_ERR_DOWN, <<>> }

\* the responses fetch resolves with
Responses ==
  { [ok |-> TRUE,  status |-> <<"2","0","0">>, statusText |-> <<"O","K">>],
    [ok |-> FALSE, status |-> DIGITS_404, statusText |-> STATUS_TEXT_404],
    [ok |-> FALSE, status |-> TOK_429, statusText |-> STATUS_TEXT_429] }

NoResponse == [ok |-> FALSE, status |-> <<>>, statusText |-> <<>>]

(***************************************************************************)
(* State.                                                                  *)
(***************************************************************************)
VARIABLES
  prompt,            \* let prompt: the text of the last input event
  storedKey,         \* localStorage['gemini_api_key']: Nothing or Just(text)
  envKey,            \* process.env.API_KEY: Nothing or Just(text)
  statusText,        \* statusEl.innerText
  generateDisabled,  \* generateButton.disabled
  uploadDisabled,    \* upload.disabled
  promptDisabled,    \* promptEl.disabled
  buttonText,        \* buttonText.innerText
  spinnerHidden,     \* spinner.hidden
  quotaDisplay,      \* quotaErrorEl.style.display
  videoDisplay,      \* video.style.display
  videoSrc,          \* video.src: Nothing or Just(object URL)
  modalHidden,       \* apiKeyModal.hidden
  apiKeyInput,       \* apiKeyInput.value
  att,               \* the invocations of generate(): position and locals
  hist,              \* per invocation: what it has called so far
  imgSrc,            \* imgEl.src: Nothing or Just(object URL of a file)
  base64data,        \* let base64data: the image payload generate() passes
  readers            \* the files a FileReader of blobToBase64 is reading

ui == <<statusText, generateDisabled, uploadDisabled, promptDisabled,
        buttonText, spinnerHidden, quotaDisplay, videoDisplay, videoSrc>>

modal == <<modalHidden, apiKeyInput>>

keys == <<storedKey, envKey>>

files == <<imgSrc, base64data, readers>>

vars == <<prompt, keys, ui, modal, files, att, hist>>

Attempts == 1..MaxAttempts

\* an invocation slot that is not running, its locals dead
IdleAttempt ==
  [ pc             |-> "idle",
    prompt         |-> <<>>,
    imageBytes     |-> <<>>,
    apiKey         |-> <<>>,
    operation      |-> PendingOperation,
    messageIndex   |-> 0,
    intervalActive |-> FALSE,
    intervalLeft   |-> 0,
    delayLeft      |-> 0,
    videos         |-> <<>>,
    i              |-> 0,
    res            |-> NoResponse,
    each           |-> <<>>,
    outcome        |-> [ok |-> TRUE, message |-> <<>>] ]

\* what an invocation has done so far (history, not program state)
NoHistory ==
  [ keyLookups    |-> 0,     \* calls of getApiKey
    submits       |-> 0,     \* calls of ai.models.generateVideos
    polls         |-> 0,     \* calls of ai.operations.getVideosOperation
    pendings      |-> 0,     \* operations received with done = false
    queries       |-> 0,     \* provider calls in flight
    doneSeen      |-> FALSE, \* an operation with done = true was received
    fetched       |-> <<>>,  \* the indices fetch was called for, in order
    fetches       |-> 0,     \* retrievals in flight
    failedAt      |-> <<>>,  \* the indices whose retrieval failed
    downloaded    |-> <<>>,  \* the downloadFile calls, in order
    starts        |-> 0,     \* calls of setInterval
    clears        |-> 0,     \* calls of clearInterval
    callbacks     |-> 0 ]    \* calls of onStatusUpdate

Init ==
  /\ prompt = <<>>
  /\ storedKey \in {Nothing, Just(<<"k">>)}
  /\ envKey \in {Nothing, Just(ENV_KEY)}
  /\ statusText = <<>>
  /\ generateDisabled = FALSE
  /\ uploadDisabled = FALSE
  /\ promptDisabled = FALSE
  /\ buttonText = TXT_GENERATE
  /\ spinnerHidden = TRUE
  /\ quotaDisplay = "none"
  /\ videoDisplay = "none"
  /\ videoSrc = Nothing
  /\ modalHidden = TRUE
  /\ apiKeyInput = <<>>
  /\ att = [a \in Attempts |-> IdleAttempt]
  /\ hist = [a \in Attempts |-> NoHistory]
  /\ imgSrc = Nothing
  /\ base64data = <<>>
  /\ readers = {}

\* a promise reaction of generate() is queued: it runs before any other task
MicrotaskPending == \E a \in Attempts : att[a].pc = "settled"

(***************************************************************************)
(* API key management and the modal.                                       *)
(***************************************************************************)
\* localStorage.getItem(API_KEY_STORAGE_KEY) ?? process.env.API_KEY
getApiKey == IF storedKey # Nothing THEN storedKey ELSE envKey

\* !apiKey: undefined, null or the empty string
Falsy(k) == k = Nothing \/ k[1] = <<>>

\* showApiKeyModal filling the field but leaving the modal hidden
showApiKeyModalStaysHidden ==
  /\ apiKeyInput' = IF storedKey # Nothing /\ storedKey[1] # <<>>
                    THEN storedKey[1] ELSE <<>>
  /\ modalHidden' = modalHidden

\* showApiKeyModal
showApiKeyModal ==
  /\ apiKeyInput' = IF storedKey # Nothing /\ storedKey[1] # <<>>
                    THEN storedKey[1] ELSE <<>>
  /\ modalHidden' = FALSE

(***************************************************************************)
(* generateContent, cut at its awaits.  A frame f is the pair of an        *)
(* invocation's locals f.r and its history f.h; each operator below runs   *)
(* the code from one point up to the next await (or to the end) and        *)
(* returns the frame reached.                                              *)
(***************************************************************************)
\* throw new Error(m)
Throw(m) == [ok |-> FALSE, message |-> m]

\* the function returns normally
Return == [ok |-> TRUE, message |-> <<>>]

\* Finally with clearInterval after the loop instead of in a finally block
FinallyOnSuccessOnly(f, out) ==
  [ r |-> [f.r EXCEPT !.intervalActive = IF out.ok THEN FALSE ELSE @,
                      !.intervalLeft = IF out.ok THEN 0 ELSE @,
                      !.pc = "settled", !.outcome = out],
    h |-> [f.h EXCEPT !.clears = IF out.ok THEN @ + 1 ELSE @] ]

\* Finally with clearInterval forgotten
FinallyNoClear(f, out) ==
  [ r |-> [f.r EXCEPT !.pc = "settled", !.outcome = out],
    h |-> f.h ]

\* the finally block, then the promise of generateContent settles with out
Finally(f, out) ==
  [ r |-> [f.r EXCEPT !.intervalActive = FALSE, !.intervalLeft = 0,
                      !.pc = "settled", !.outcome = out],
    h |-> [f.h EXCEPT !.clears = @ + 1] ]

\* one turn of the for...of loop, up to await fetch(...)
StartFetch(f) ==
  LET url == DecodeURIComponent(f.r.videos[f.r.i + 1]) IN
    IF url = Nothing
    THEN Finally(f, Throw(ERR_URI_MALFORMED))
    ELSE [ r |-> [f.r EXCEPT !.pc = "fetch"],
           h |-> [f.h EXCEPT
                    !.fetched = Append(@, [i   |-> f.r.i,
                                           url |-> DownloadUrl(url[1], f.r.apiKey)]),
                    !.fetches = @ + 1] ]

\* NextVideo with the last video left out
NextVideoSkipsLast(f) ==
  IF f.r.i < Len(f.r.videos) - 1 THEN StartFetch(f) ELSE Finally(f, Return)

\* the for...of loop is entered again, or ends and the try block with it
NextVideo(f) ==
  IF f.r.i < Len(f.r.videos) THEN StartFetch(f) ELSE Finally(f, Return)

\* AfterLoop with the test for an empty list forgotten
AfterLoopNoEmptyCheck(f) ==
  LET videos == f.r.operation.videos IN
    IF videos = Nothing
    THEN Finally(f, Throw(ERR_NO_VIDEOS))
    ELSE NextVideo([f EXCEPT !.r.videos = videos[1], !.r.i = 0])

\* after the while loop: the check of generatedVideos, then the first fetch
AfterLoop(f) ==
  LET videos == f.r.operation.videos IN
    IF videos = Nothing \/ Len(videos[1]) = 0
    THEN Finally(f, Throw(ERR_NO_VIDEOS))
    ELSE NextVideo([f EXCEPT !.r.videos = videos[1], !.r.i = 0])

\* PollLoop as a loop that never tests operation.done
PollLoopIgnoresDone(f) ==
  [f EXCEPT !.r.pc = "delay", !.r.delayLeft = POLL_DELAY]

\* PollLoop calling getVideosOperation again at once, without delay(1000)
PollLoopNoDelay(f) ==
  IF ~f.r.operation.done
  THEN [f EXCEPT !.r.pc = "getVideosOperation",
                 !.h.polls = @ + 1, !.h.queries = @ + 1]
  ELSE AfterLoop(f)

\* while (!operation.done): await delay(1000), or leave the loop
PollLoop(f) ==
  IF ~f.r.operation.done
  THEN [f EXCEPT !.r.pc = "delay", !.r.delayLeft = POLL_DELAY]
  ELSE AfterLoop(f)

\* operation = await ...: an operation arrives from the provider
Received(f, op) ==
  [ r |-> [f.r EXCEPT !.operation = op],
    h |-> [f.h EXCEPT !.queries  = @ - 1,
                      !.pendings = IF op.done THEN @ ELSE @ + 1,
                      !.doneSeen = @ \/ op.done] ]

\* let messageIndex = 0; const messageInterval = setInterval(..., 4000)
StartInterval(f) ==
  [ r |-> [f.r EXCEPT !.messageIndex = 0, !.intervalActive = TRUE,
                      !.intervalLeft = MESSAGE_INTERVAL],
    h |-> [f.h EXCEPT !.starts = @ + 1] ]

\* the locals an invocation keeps when generate() has returned: only a
\* timer that is still running keeps its closure
Returned(r) ==
  IF r.intervalActive
  THEN [IdleAttempt EXCEPT !.intervalActive = TRUE,
                           !.intervalLeft = r.intervalLeft,
                           !.messageIndex = r.messageIndex]
  ELSE IdleAttempt

\* the frame of invocation a
Frame(a) == [r |-> att[a], h |-> hist[a]]

\* invocation a moves to frame f
Becomes(a, f) ==
  /\ att' = [att EXCEPT ![a] = f.r]
  /\ hist' = [hist EXCEPT ![a] = f.h]

(***************************************************************************)
(* generate(): from the click to the first await.                          *)
(***************************************************************************)
\* PromptMissing without trim()
PromptMissingNoTrim(p) == p = <<>>

\* !prompt.trim()
PromptMissing(p) == Trim(p) = <<>>

\* DisableControls with the generate button left enabled
DisableControlsNotButton ==
  /\ videoDisplay' = "none"
  /\ generateDisabled' = generateDisabled
  /\ buttonText' = TXT_GENERATING
  /\ spinnerHidden' = FALSE
  /\ uploadDisabled' = TRUE
  /\ promptDisabled' = TRUE
  /\ quotaDisplay' = "none"

\* generate() disables the controls and shows the spinner
DisableControls ==
  /\ videoDisplay' = "none"
  /\ generateDisabled' = TRUE
  /\ buttonText' = TXT_GENERATING
  /\ spinnerHidden' = FALSE
  /\ uploadDisabled' = TRUE
  /\ promptDisabled' = TRUE
  /\ quotaDisplay' = "none"

\* generateContent up to await ai.models.generateVideos(config)
generateContent(a) ==
  LET apiKey == getApiKey IN
    IF Falsy(apiKey)
    THEN /\ statusText' = TXT_ADD_KEY
         /\ showApiKeyModal
         /\ att' = [att EXCEPT ![a] =
                      [IdleAttempt EXCEPT !.pc = "settled", !.prompt = prompt,
                                          !.imageBytes = base64data,
                                          !.outcome = Throw(ERR_KEY_NOT_FOUND)]]
         /\ hist' = [hist EXCEPT ![a] = [NoHistory EXCEPT !.keyLookups = 1]]
    ELSE /\ statusText' = TXT_INITIALIZING
         /\ UNCHANGED modal
         /\ att' = [att EXCEPT ![a] =
                      [IdleAttempt EXCEPT !.pc = "generateVideos",
                                          !.prompt = prompt,
                                          !.imageBytes = base64data,
                                          !.apiKey = apiKey[1]]]
         /\ hist' = [hist EXCEPT ![a] =
                       [NoHistory EXCEPT !.keyLookups = 1, !.submits = 1,
                                         !.queries = 1]]

\* generate() as invocation a, up to its await
generate(a) ==
  IF PromptMissing(prompt)
  THEN /\ statusText' = TXT_ENTER_PROMPT
       /\ UNCHANGED <<generateDisabled, uploadDisabled, promptDisabled,
                      buttonText, spinnerHidden, quotaDisplay, videoDisplay,
                      videoSrc, modal, att, hist>>
  ELSE /\ DisableControls
       /\ generateContent(a)
       /\ UNCHANGED videoSrc

\* the click listener of generateButton; a disabled button gets no click
GenerateClick ==
  /\ ~MicrotaskPending
  /\ ~generateDisabled
  /\ \E a \in Attempts :
       /\ att[a].pc = "idle"
       /\ \A b \in Attempts : att[b].pc = "idle" => a <= b
       /\ generate(a)
  /\ UNCHANGED <<prompt, keys>>
  /\ UNCHANGED files

(***************************************************************************)
(* generate(): after await generateContent(...).                           *)
(***************************************************************************)
\* e.message || 'An unknown error occurred.'
ErrorMessage(out) ==
  IF out.message # <<>> THEN out.message ELSE TXT_UNKNOWN_ERROR

\* Classify testing only for the word "quota", not for "429"
ClassifyQuotaWordOnly(message) ==
  IF Includes(ToLowerCase(message), TOK_QUOTA)
  THEN "quota"
  ELSE IF Includes(message, TOK_400)
          \/ Includes(ToLowerCase(message), TOK_API_KEY)
       THEN "key"
       ELSE "other"

\* Classify comparing the words "quota" and "api key" case-sensitively
ClassifyCaseSensitive(message) ==
  IF Includes(message, TOK_429) \/ Includes(message, TOK_QUOTA)
  THEN "quota"
  ELSE IF Includes(message, TOK_400) \/ Includes(message, TOK_API_KEY)
       THEN "key"
       ELSE "other"

\* the branch of the catch block a message takes
Classify(message) ==
  IF Includes(message, TOK_429) \/ Includes(ToLowerCase(message), TOK_QUOTA)
  THEN "quota"
  ELSE IF Includes(message, TOK_400)
          \/ Includes(ToLowerCase(message), TOK_API_KEY)
       THEN "key"
       ELSE "other"

\* the status line generate() writes for the outcome of generateContent
FinalStatus(out) ==
  IF out.ok THEN TXT_DONE
  ELSE CASE Classify(ErrorMessage(out)) = "quota" -> TXT_QUOTA
         [] Classify(ErrorMessage(out)) = "key"   -> TXT_REQUEST_FAILED
         [] OTHER                                 -> ErrorMessage(out)

\* EnableControls with the file input forgotten
EnableControlsNotUpload ==
  /\ generateDisabled' = FALSE
  /\ buttonText' = TXT_GENERATE
  /\ spinnerHidden' = TRUE
  /\ uploadDisabled' = uploadDisabled
  /\ promptDisabled' = FALSE

\* generate() enables the controls again
EnableControls ==
  /\ generateDisabled' = FALSE
  /\ buttonText' = TXT_GENERATE
  /\ spinnerHidden' = TRUE
  /\ uploadDisabled' = FALSE
  /\ promptDisabled' = FALSE

\* generate() resumes when generateContent has settled
GenerateResume(a) ==
  /\ att[a].pc = "settled"
  /\ LET out  == att[a].outcome
         kind == IF out.ok THEN "ok" ELSE Classify(ErrorMessage(out))
     IN  /\ statusText' = FinalStatus(out)
         /\ quotaDisplay' = IF kind = "quota" THEN "block" ELSE quotaDisplay
         /\ IF kind = "key" THEN showApiKeyModal ELSE UNCHANGED modal
  /\ EnableControls
  /\ att' = [att EXCEPT ![a] = Returned(att[a])]
  /\ hist' = [hist EXCEPT ![a] = NoHistory]
  /\ UNCHANGED <<prompt, keys, videoDisplay, videoSrc>>
  /\ UNCHANGED files

(***************************************************************************)
(* The provider answers.                                                   *)
(***************************************************************************)
\* the provider may answer Pending only MaxPolls times in one attempt
MayAnswer(a, op) == op.done \/ hist[a].pendings < MaxPolls

\* await ai.models.generateVideos(config) resolves: the interval starts,
\* the try block is entered
GenerateVideosResolve(a, op) ==
  /\ ~MicrotaskPending
  /\ att[a].pc = "generateVideos"
  /\ MayAnswer(a, op)
  /\ Becomes(a, PollLoop(StartInterval(Received(Frame(a), op))))
  /\ UNCHANGED <<prompt, keys, ui, modal>>
  /\ UNCHANGED files

\* await ai.models.generateVideos(config) rejects, before the try block
GenerateVideosReject(a, m) ==
  /\ ~MicrotaskPending
  /\ att[a].pc = "generateVideos"
  /\ att' = [att EXCEPT ![a].pc = "settled", ![a].outcome = Throw(m)]
  /\ hist' = [hist EXCEPT ![a].queries = @ - 1]
  /\ UNCHANGED <<prompt, keys, ui, modal>>
  /\ UNCHANGED files

\* await delay(1000) resolves: getVideosOperation is called
DelayFire(a) ==
  /\ ~MicrotaskPending
  /\ att[a].pc = "delay"
  /\ att[a].delayLeft = 0
  /\ att' = [att EXCEPT ![a].pc = "getVideosOperation"]
  /\ hist' = [hist EXCEPT ![a].polls = @ + 1, ![a].queries = @ + 1]
  /\ UNCHANGED <<prompt, keys, ui, modal>>
  /\ UNCHANGED files

\* await ai.operations.getVideosOperation({operation}) resolves
GetVideosOperationResolve(a, op) ==
  /\ ~MicrotaskPending
  /\ att[a].pc = "getVideosOperation"
  /\ MayAnswer(a, op)
  /\ Becomes(a, PollLoop(Received(Frame(a), op)))
  /\ UNCHANGED <<prompt, keys, ui, modal>>
  /\ UNCHANGED files

\* await ai.operations.getVideosOperation({operation}) rejects
GetVideosOperationReject(a, m) ==
  /\ ~MicrotaskPending
  /\ att[a].pc = "getVideosOperation"
  /\ Becomes(a, Finally([Frame(a) EXCEPT !.h.queries = @ - 1], Throw(m)))
  /\ UNCHANGED <<prompt, keys, ui, modal>>
  /\ UNCHANGED files

\* await fetch(...) resolves with a response
FetchResolve(a, res) ==
  /\ ~MicrotaskPending
  /\ att[a].pc = "fetch"
  /\ att' = [att EXCEPT ![a].res = res,
                        ![a].pc = IF res.ok THEN "blob" ELSE "text"]
  /\ hist' = [hist EXCEPT
                ![a].failedAt = IF res.ok THEN @ ELSE Append(@, att[a].i)]
  /\ UNCHANGED <<prompt, keys, ui, modal>>
  /\ UNCHANGED files

\* await fetch(...) rejects
FetchReject(a) ==
  /\ ~MicrotaskPending
  /\ att[a].pc = "fetch"
  /\ Becomes(a, Finally([Frame(a) EXCEPT !.h.fetches = @ - 1,
                                         !.h.failedAt = Append(@, att[a].i)],
                        Throw(NET_ERR_FETCH)))
  /\ UNCHANGED <<prompt, keys, ui, modal>>
  /\ UNCHANGED files

\* await res.text() settles; either way the download has failed
TextSettle(a, read) ==
  /\ ~MicrotaskPending
  /\ att[a].pc = "text"
  /\ Becomes(a, Finally([Frame(a) EXCEPT !.h.fetches = @ - 1],
                        IF read THEN Throw(DownloadErrorMessage(att[a].res))
                        ELSE Throw(NET_ERR_FETCH)))
  /\ UNCHANGED <<prompt, keys, ui, modal>>
  /\ UNCHANGED files

\* await res.blob() resolves: the video is saved and shown, then the next
BlobResolve(a) ==
  /\ ~MicrotaskPending
  /\ att[a].pc = "blob"
  /\ LET url == hist[a].fetched[Len(hist[a].fetched)].url
         f   == [Frame(a) EXCEPT
                   !.h.fetches = @ - 1,
                   !.h.downloaded = Append(@, [objectURL |-> url,
                                               filename  |-> att[a].i]),
                   !.r.i = @ + 1]
     IN  /\ videoSrc' = Just(url)
         /\ videoDisplay' = "block"
         /\ Becomes(a, NextVideo(f))
  /\ UNCHANGED <<prompt, keys, modal, statusText, generateDisabled,
                 uploadDisabled, promptDisabled, buttonText, spinnerHidden,
                 quotaDisplay>>
  /\ UNCHANGED files

\* await res.blob() rejects
BlobReject(a) ==
  /\ ~MicrotaskPending
  /\ att[a].pc = "blob"
  /\ Becomes(a, Finally([Frame(a) EXCEPT !.h.fetches = @ - 1,
                                         !.h.failedAt = Append(@, att[a].i)],
                        Throw(NET_ERR_FETCH)))
  /\ UNCHANGED <<prompt, keys, ui, modal>>
  /\ UNCHANGED files

(***************************************************************************)
(* Timers.                                                                 *)
(***************************************************************************)
\* the callback of setInterval runs
IntervalFire(a) ==
  /\ ~MicrotaskPending
  /\ att[a].intervalActive
  /\ att[a].intervalLeft = 0
  /\ att[a].messageIndex < MaxMessages
  /\ statusText' =
       GENERATION_MESSAGES[(att[a].messageIndex % Len(GENERATION_MESSAGES)) + 1]
  /\ att' = [att EXCEPT ![a].messageIndex = @ + 1,
                        ![a].intervalLeft = MESSAGE_INTERVAL]
  /\ hist' = [hist EXCEPT ![a].callbacks = @ + 1]
  /\ UNCHANGED <<prompt, keys, modal, generateDisabled, uploadDisabled,
                 promptDisabled, buttonText, spinnerHidden, quotaDisplay,
                 videoDisplay, videoSrc>>
  /\ UNCHANGED files

\* one second passes; a timer that is due runs first
Tick ==
  /\ ~MicrotaskPending
  /\ \E a \in Attempts : att[a].intervalActive \/ att[a].pc = "delay"
  /\ \A a \in Attempts :
       /\ att[a].intervalActive => att[a].intervalLeft > 0
       /\ att[a].pc = "delay" => att[a].delayLeft > 0
  /\ att' = [a \in Attempts |->
               [att[a] EXCEPT
                  !.intervalLeft = IF att[a].intervalActive THEN @ - 1 ELSE @,
                  !.delayLeft = IF att[a].pc = "delay" THEN @ - 1 ELSE @]]
  /\ UNCHANGED <<prompt, keys, ui, modal, hist>>
  /\ UNCHANGED files

(***************************************************************************)
(* The other listeners.                                                    *)
(***************************************************************************)
\* the input listener of promptEl; a disabled field takes no input
PromptInput(v) ==
  /\ ~MicrotaskPending
  /\ ~promptDisabled
  /\ prompt' = v
  /\ UNCHANGED <<keys, ui, modal, att, hist>>
  /\ UNCHANGED files

\* settingsButton / showKeyModalButton click
ShowModalClick ==
  /\ ~MicrotaskPending
  /\ showApiKeyModal
  /\ UNCHANGED <<prompt, keys, ui, att, hist>>
  /\ UNCHANGED files

\* closeModalButton / modalOverlay click
HideModalClick ==
  /\ ~MicrotaskPending
  /\ ~modalHidden
  /\ modalHidden' = TRUE
  /\ UNCHANGED <<prompt, keys, ui, apiKeyInput, att, hist>>
  /\ UNCHANGED files

\* the user types into the key field of the open modal
ApiKeyInputType(v) ==
  /\ ~MicrotaskPending
  /\ ~modalHidden
  /\ apiKeyInput' = v
  /\ UNCHANGED <<prompt, keys, ui, modalHidden, att, hist>>
  /\ UNCHANGED files

\* SaveKeyClick storing the field as typed, without trim()
SaveKeyClickNoTrim ==
  /\ ~MicrotaskPending
  /\ ~modalHidden
  /\ LET key == apiKeyInput IN
       IF key # <<>>
       THEN /\ storedKey' = Just(key)
            /\ statusText' = TXT_KEY_SAVED
       ELSE /\ storedKey' = Nothing
            /\ statusText' = TXT_KEY_REMOVED
  /\ modalHidden' = TRUE
  /\ UNCHANGED <<prompt, envKey, apiKeyInput, generateDisabled,
                 uploadDisabled, promptDisabled, buttonText, spinnerHidden,
                 quotaDisplay, videoDisplay, videoSrc, att, hist>>
  /\ UNCHANGED files

\* saveKeyButton click
SaveKeyClick ==
  /\ ~MicrotaskPending
  /\ ~modalHidden
  /\ LET key == Trim(apiKeyInput) IN
       IF key # <<>>
       THEN /\ storedKey' = Just(key)
            /\ statusText' = TXT_KEY_SAVED
       ELSE /\ storedKey' = Nothing
            /\ statusText' = TXT_KEY_REMOVED
  /\ modalHidden' = TRUE
  /\ UNCHANGED <<prompt, envKey, apiKeyInput, generateDisabled,
                 uploadDisabled, promptDisabled, buttonText, spinnerHidden,
                 quotaDisplay, videoDisplay, videoSrc, att, hist>>
  /\ UNCHANGED files

Next ==
  \/ GenerateClick
  \/ \E a \in Attempts : GenerateResume(a)
  \/ \E a \in Attempts, op \in Operations : GenerateVideosResolve(a, op)
  \/ \E a \in Attempts, m \in RejectMessages : GenerateVideosReject(a, m)
  \/ \E a \in Attempts : DelayFire(a)
  \/ \E a \in Attempts, op \in Operations : GetVideosOperationResolve(a, op)
  \/ \E a \in Attempts, m \in RejectMessages : GetVideosOperationReject(a, m)
  \/ \E a \in Attempts, res \in Responses : FetchResolve(a, res)
  \/ \E a \in Attempts : FetchReject(a)
  \/ \E a \in Attempts, read \in BOOLEAN : TextSettle(a, read)
  \/ \E a \in Attempts : BlobResolve(a)
  \/ \E a \in Attempts : BlobReject(a)
  \/ \E a \in Attempts : IntervalFire(a)
  \/ Tick
  \/ \E v \in PromptTexts : PromptInput(v)
  \/ ShowModalClick
  \/ HideModalClick
  \/ \E v \in KeyTexts : ApiKeyInputType(v)
  \/ SaveKeyClick

Spec == Init /\ [][Next]_vars

(***************************************************************************)
(* The second page script, src/unnamed/part_000: the same page without     *)
(* the API-key modal, the prompt check and the progress interval; its      *)
(* generateContent downloads with videos.forEach(async ...), its generate  *)
(* classifies errors with JSON.parse.  SpecLegacy runs it on the same      *)
(* variables; att[a].each holds the forEach callbacks of invocation a.     *)
(***************************************************************************)
\* "Done."
TXT_LEGACY_DONE ==
  <<"D","o","n","e",".">>

\* "{\"error\":{\"code\":"
JSON_ERROR_CODE ==
  <<"{","\"","e","r","r","o","r","\"",":","{","\"","c","o","d","e","\"",":">>

\* ",\"message\":\""
JSON_MESSAGE ==
  <<",","\"","m","e","s","s","a","g","e","\"",":","\"">>

\* "\"}}"
JSON_CLOSE ==
  <<"\"","}","}">>

IsDigit(c) == c \in {"0", "1", "2", "3", "4", "5", "6", "7", "8", "9"}

DigitValue(c) == CHOOSE n \in 0..9 : Digits(n) = <<c>>

\* the longest prefix of s made of digits
RECURSIVE DigitPrefix(_)
DigitPrefix(s) ==
  IF s # <<>> /\ IsDigit(Head(s))
  THEN <<Head(s)>> \o DigitPrefix(Tail(s))
  ELSE <<>>

\* the number a sequence of digits denotes
RECURSIVE NumberValue(_)
NumberValue(ds) ==
  IF ds = <<>> THEN 0
  ELSE 10 * NumberValue(SubSeq(ds, 1, Len(ds) - 1)) + DigitValue(ds[Len(ds)])

StartsWith(s, p) == Len(s) >= Len(p) /\ SubSeq(s, 1, Len(p)) = p

EndsWith(s, p) ==
  Len(s) >= Len(p) /\ SubSeq(s, Len(s) - Len(p) + 1, Len(s)) = p

Drop(s, n) == SubSeq(s, n + 1, Len(s))

\* JSON.parse(e.message) followed by the reads of err.error.code and
\* err.error.message, for texts of the shape
\* {"error":{"code":<number>,"message":"<text>"}}: Just([code, message]).
\* Nothing stands for the exception any other text of the model ends in
\* (a SyntaxError of JSON.parse, or a TypeError reading err.error.code).
JSONParseError(s) ==
  IF ~StartsWith(s, JSON_ERROR_CODE) THEN Nothing
  ELSE
    LET r1 == Drop(s, Len(JSON_ERROR_CODE))
        ds == DigitPrefix(r1)
        r2 == Drop(r1, Len(ds))
        r3 == Drop(r2, Len(JSON_MESSAGE))
        msg == SubSeq(r3, 1, Len(r3) - Len(JSON_CLOSE))
    IN  IF \/ ds = <<>>
           \/ (Len(ds) > 1 /\ ds[1] = "0")
           \/ ~StartsWith(r2, JSON_MESSAGE)
           \/ ~EndsWith(r3, JSON_CLOSE)
           \/ \E k \in 1..Len(msg) : msg[k] \in {"\"", "\\"}
        THEN Nothing
        ELSE Just([code |-> NumberValue(ds), message |-> msg])

\* the promise of the legacy generateContent settles with out
LegacySettle(f, out) == [f EXCEPT !.r.pc = "settled", !.r.outcome = out]

\* videos.forEach(async (v, i) => ...), from the k-th video on: each
\* callback runs up to its await fetch(url), one after the other
RECURSIVE LegacyForEach(_, _)
LegacyForEach(f, k) ==
  IF k > Len(f.r.videos) THEN f
  ELSE
    LET url == DecodeURIComponent(f.r.videos[k])
        g == IF url = Nothing
             THEN [f EXCEPT !.r.each = Append(@, "failed"),
                            !.h.failedAt = Append(@, k - 1)]
             ELSE [f EXCEPT !.r.each = Append(@, "fetch"),
                            !.h.fetched = Append(@, [i |-> k - 1, url |-> url[1]]),
                            !.h.fetches = @ + 1]
    IN  LegacyForEach(g, k + 1)

\* after the while loop: the check of generatedVideos, then forEach, then
\* the function returns without awaiting the callbacks
LegacyAfterLoop(f) ==
  LET videos == f.r.operation.videos IN
    IF videos = Nothing \/ Len(videos[1]) = 0
    THEN LegacySettle(f, Throw(ERR_NO_VIDEOS))
    ELSE LegacySettle(
           LegacyForEach([f EXCEPT !.r.videos = videos[1], !.r.each = <<>>], 1),
           Return)

\* while (!operation.done): await delay(1000), or leave the loop
LegacyPollLoop(f) ==
  IF ~f.r.operation.done
  THEN [f EXCEPT !.r.pc = "delay", !.r.delayLeft = POLL_DELAY]
  ELSE LegacyAfterLoop(f)

\* a forEach callback of invocation a is still awaiting
Downloading(a) ==
  \E k \in 1..Len(att[a].each) : att[a].each[k] \in {"fetch", "blob"}

\* the change listener of promptEl
LegacyPromptChange(v) ==
  /\ ~MicrotaskPending
  /\ ~promptDisabled
  /\ prompt' = v
  /\ UNCHANGED <<keys, ui, modal, att, hist>>
  /\ UNCHANGED files

\* the click listener of generateButton: generate() up to its await, that
\* is generateContent up to await ai.models.generateVideos(config).  The
\* user of the model clicks again only when the downloads of the earlier
\* invocations have ended.
LegacyGenerateClick ==
  /\ ~MicrotaskPending
  /\ ~generateDisabled
  /\ \A b \in Attempts : ~Downloading(b)
  /\ \E a \in Attempts :
       /\ att[a].pc = "idle"
       /\ \A b \in Attempts : att[b].pc = "idle" => a <= b
       /\ att' = [att EXCEPT ![a] =
                    [IdleAttempt EXCEPT !.pc = "generateVideos",
                                        !.prompt = prompt,
                                        !.imageBytes = base64data]]
       /\ hist' = [hist EXCEPT ![a] =
                     [NoHistory EXCEPT !.submits = 1, !.queries = 1]]
  /\ statusText' = TXT_GENERATING
  /\ videoDisplay' = "none"
  /\ generateDisabled' = TRUE
  /\ uploadDisabled' = TRUE
  /\ promptDisabled' = TRUE
  /\ quotaDisplay' = "none"
  /\ UNCHANGED <<prompt, keys, modal, buttonText, spinnerHidden, videoSrc>>
  /\ UNCHANGED files

\* the status line the legacy generate() writes for an outcome
LegacyFinalStatus(out) ==
  IF out.ok THEN TXT_LEGACY_DONE
  ELSE LET err == JSONParseError(out.message) IN
         IF err = Nothing THEN out.message
         ELSE IF err[1].code = 429 THEN <<>>
         ELSE err[1].message

\* the legacy generate() resumes when generateContent has settled
LegacyGenerateResume(a) ==
  /\ att[a].pc = "settled"
  /\ statusText' = LegacyFinalStatus(att[a].outcome)
  /\ quotaDisplay' =
       IF /\ ~att[a].outcome.ok
          /\ JSONParseError(att[a].outcome.message) # Nothing
          /\ JSONParseError(att[a].outcome.message)[1].code = 429
       THEN "block" ELSE quotaDisplay
  /\ generateDisabled' = FALSE
  /\ uploadDisabled' = FALSE
  /\ promptDisabled' = FALSE
  /\ att' = [att EXCEPT ![a] =
               [IdleAttempt EXCEPT !.videos = att[a].videos,
                                   !.each = att[a].each]]
  /\ UNCHANGED <<prompt, keys, modal, buttonText, spinnerHidden,
                 videoDisplay, videoSrc, hist>>
  /\ UNCHANGED files

\* await ai.models.generateVideos(config) resolves
LegacyGenerateVideosResolve(a, op) ==
  /\ ~MicrotaskPending
  /\ att[a].pc = "generateVideos"
  /\ MayAnswer(a, op)
  /\ Becomes(a, LegacyPollLoop(Received(Frame(a), op)))
  /\ UNCHANGED <<prompt, keys, ui, modal>>
  /\ UNCHANGED files

\* await ai.models.generateVideos(config) rejects
LegacyGenerateVideosReject(a, m) ==
  /\ ~MicrotaskPending
  /\ att[a].pc = "generateVideos"
  /\ Becomes(a, LegacySettle([Frame(a) EXCEPT !.h.queries = @ - 1], Throw(m)))
  /\ UNCHANGED <<prompt, keys, ui, modal>>
  /\ UNCHANGED files

\* await ai.operations.getVideosOperation({operation}) resolves
LegacyGetVideosOperationResolve(a, op) ==
  /\ ~MicrotaskPending
  /\ att[a].pc = "getVideosOperation"
  /\ MayAnswer(a, op)
  /\ Becomes(a, LegacyPollLoop(Received(Frame(a), op)))
  /\ UNCHANGED <<prompt, keys, ui, modal>>
  /\ UNCHANGED files

\* await ai.operations.getVideosOperation({operation}) rejects
LegacyGetVideosOperationReject(a, m) ==
  /\ ~MicrotaskPending
  /\ att[a].pc = "getVideosOperation"
  /\ Becomes(a, LegacySettle([Frame(a) EXCEPT !.h.queries = @ - 1], Throw(m)))
  /\ UNCHANGED <<prompt, keys, ui, modal>>
  /\ UNCHANGED files

\* await fetch(url) of the k-th callback resolves; res.ok is not looked at
LegacyFetchResolve(a, k) ==
  /\ ~MicrotaskPending
  /\ k \in 1..Len(att[a].each)
  /\ att[a].each[k] = "fetch"
  /\ att' = [att EXCEPT ![a].each[k] = "blob"]
  /\ UNCHANGED <<prompt, keys, ui, modal, hist>>
  /\ UNCHANGED files

\* await fetch(url) or await res.blob() of the k-th callback rejects: the
\* promise of the callback rejects and nobody handles it
LegacyDownloadReject(a, k) ==
  /\ ~MicrotaskPending
  /\ k \in 1..Len(att[a].each)
  /\ att[a].each[k] \in {"fetch", "blob"}
  /\ att' = [att EXCEPT ![a].each[k] = "failed"]
  /\ hist' = [hist EXCEPT ![a].fetches = @ - 1,
                          ![a].failedAt = Append(@, k - 1)]
  /\ UNCHANGED <<prompt, keys, ui, modal>>
  /\ UNCHANGED files

\* await res.blob() of the k-th callback resolves: the video is saved and
\* shown
LegacyBlobResolve(a, k) ==
  /\ ~MicrotaskPending
  /\ k \in 1..Len(att[a].each)
  /\ att[a].each[k] = "blob"
  /\ LET e == CHOOSE e \in {hist[a].fetched[j] : j \in 1..Len(hist[a].fetched)} :
                e.i = k - 1
     IN  /\ videoSrc' = Just(e.url)
         /\ hist' = [hist EXCEPT
                       ![a].fetches = @ - 1,
                       ![a].downloaded = Append(@, [objectURL |-> e.url,
                                                    filename  |-> k - 1])]
  /\ videoDisplay' = "block"
  /\ att' = [att EXCEPT ![a].each[k] = "done"]
  /\ UNCHANGED <<prompt, keys, modal, statusText, generateDisabled,
                 uploadDisabled, promptDisabled, buttonText, spinnerHidden,
                 quotaDisplay>>
  /\ UNCHANGED files

NextLegacy ==
  \/ \E v \in PromptTexts : LegacyPromptChange(v)
  \/ LegacyGenerateClick
  \/ \E a \in Attempts : LegacyGenerateResume(a)
  \/ \E a \in Attempts, op \in Operations : LegacyGenerateVideosResolve(a, op)
  \/ \E a \in Attempts, m \in RejectMessages : LegacyGenerateVideosReject(a, m)
  \/ \E a \in Attempts : DelayFire(a)
  \/ \E a \in Attempts, op \in Operations :
       LegacyGetVideosOperationResolve(a, op)
  \/ \E a \in Attempts, m \in RejectMessages :
       LegacyGetVideosOperationReject(a, m)
  \/ \E a \in Attempts, k \in 1..MaxVideos : LegacyFetchResolve(a, k)
  \/ \E a \in Attempts, k \in 1..MaxVideos : LegacyDownloadReject(a, k)
  \/ \E a \in Attempts, k \in 1..MaxVideos : LegacyBlobResolve(a, k)
  \/ Tick

SpecLegacy == Init /\ [][NextLegacy]_vars

(***************************************************************************)
(* SpecProgress: src/index.tsx again, for long attempts.  The provider     *)
(* answers Pending up to MaxProgressPolls times and the interval callback  *)
(* runs up to MaxProgressMessages times in one attempt; in exchange a      *)
(* finished operation holds one video or none, a poll fails only with      *)
(* "network down", and the key modal is left alone.                        *)
(***************************************************************************)
\* what the provider resolves with in SpecProgress
ProgressOperations ==
  { PendingOperation,
    [done |-> TRUE, videos |-> Nothing, error |-> Nothing],
    [done |-> TRUE, videos |-> Just(<<VideoUri(1)>>), error |-> Nothing] }

\* the provider may answer Pending only MaxProgressPolls times in one attempt
ProgressMayAnswer(a, op) == op.done \/ hist[a].pendings < MaxProgressPolls

\* await ai.models.generateVideos(config) resolves: the interval starts,
\* the try block is entered
ProgressGenerateVideosResolve(a, op) ==
  /\ ~MicrotaskPending
  /\ att[a].pc = "generateVideos"
  /\ ProgressMayAnswer(a, op)
  /\ Becomes(a, PollLoop(StartInterval(Received(Frame(a), op))))
  /\ UNCHANGED <<prompt, keys, ui, modal>>
  /\ UNCHANGED files

\* await ai.operations.getVideosOperation({operation}) resolves
ProgressGetVideosOperationResolve(a, op) ==
  /\ ~MicrotaskPending
  /\ att[a].pc = "getVideosOperation"
  /\ ProgressMayAnswer(a, op)
  /\ Becomes(a, PollLoop(Received(Frame(a), op)))
  /\ UNCHANGED <<prompt, keys, ui, modal>>
  /\ UNCHANGED files

\* ProgressIntervalFire staying at the last message instead of wrapping
ProgressIntervalFireNoWrap(a) ==
  /\ ~MicrotaskPending
  /\ att[a].intervalActive
  /\ att[a].intervalLeft = 0
  /\ att[a].messageIndex < MaxProgressMessages
  /\ statusText' =
       GENERATION_MESSAGES[IF att[a].messageIndex < Len(GENERATION_MESSAGES)
                           THEN att[a].messageIndex + 1
                           ELSE Len(GENERATION_MESSAGES)]
  /\ att' = [att EXCEPT ![a].messageIndex = @ + 1,
                        ![a].intervalLeft = MESSAGE_INTERVAL]
  /\ hist' = [hist EXCEPT ![a].callbacks = @ + 1]
  /\ UNCHANGED <<prompt, keys, modal, generateDisabled, uploadDisabled,
                 promptDisabled, buttonText, spinnerHidden, quotaDisplay,
                 videoDisplay, videoSrc>>
  /\ UNCHANGED files

\* the callback of setInterval runs
ProgressIntervalFire(a) ==
  /\ ~MicrotaskPending
  /\ att[a].intervalActive
  /\ att[a].intervalLeft = 0
  /\ att[a].messageIndex < MaxProgressMessages
  /\ statusText' =
       GENERATION_MESSAGES[(att[a].messageIndex % Len(GENERATION_MESSAGES)) + 1]
  /\ att' = [att EXCEPT ![a].messageIndex = @ + 1,
                        ![a].intervalLeft = MESSAGE_INTERVAL]
  /\ hist' = [hist EXCEPT ![a].callbacks = @ + 1]
  /\ UNCHANGED <<prompt, keys, modal, generateDisabled, uploadDisabled,
                 promptDisabled, buttonText, spinnerHidden, quotaDisplay,
                 videoDisplay, videoSrc>>
  /\ UNCHANGED files

NextProgress ==
  \/ \E v \in PromptTexts : PromptInput(v)
  \/ GenerateClick
  \/ \E a \in Attempts : GenerateResume(a)
  \/ \E a \in Attempts, op \in ProgressOperations :
       ProgressGenerateVideosResolve(a, op)
  \/ \E a \in Attempts : DelayFire(a)
  \/ \E a \in Attempts, op \in ProgressOperations :
       ProgressGetVideosOperationResolve(a, op)
  \/ \E a \in Attempts : GetVideosOperationReject(a, NET_ERR_DOWN)
  \/ \E a \in Attempts, res \in Responses : FetchResolve(a, res)
  \/ \E a \in Attempts, read \in BOOLEAN : TextSettle(a, read)
  \/ \E a \in Attempts : BlobResolve(a)
  \/ \E a \in Attempts : ProgressIntervalFire(a)
  \/ Tick

SpecProgress == Init /\ [][NextProgress]_vars

(***************************************************************************)
(* SpecUpload: src/index.tsx again, for the image.  The user picks or      *)
(* drops files, the FileReaders of blobToBase64 finish in any order, and   *)
(* generate() passes base64data as it is at the click; in exchange every   *)
(* attempt ends with generateVideos rejecting, and the key modal is left   *)
(* alone.                                                                  *)
(***************************************************************************)
\* "image/"
IMAGE_PREFIX ==
  <<"i","m","a","g","e","/">>

\* "image/png"
TYPE_PNG ==
  <<"i","m","a","g","e","/","p","n","g">>

\* "image/jpeg"
TYPE_JPEG ==
  <<"i","m","a","g","e","/","j","p","e","g">>

\* "text/plain"
TYPE_TEXT ==
  <<"t","e","x","t","/","p","l","a","i","n">>

\* "data:"
DATA_SCHEME ==
  <<"d","a","t","a",":">>

\* ";base64,"
BASE64_MARK ==
  <<";","b","a","s","e","6","4",",">>

\* the files the user has at hand: a file is its type and its content, the
\* content given as the base64 text readAsDataURL makes of it
Files ==
  { [type |-> TYPE_PNG,  base64 |-> <<"Q","Q","=","=">>],
    [type |-> TYPE_JPEG, base64 |-> <<"Q","g","=","=">>],
    [type |-> TYPE_TEXT, base64 |-> <<"Q","w","=","=">>] }

\* reader.result after readAsDataURL(blob): data:<type>;base64,<content>
ReadAsDataURL(blob) == DATA_SCHEME \o blob.type \o BASE64_MARK \o blob.base64

\* s.split(sep) for a separator of one character
RECURSIVE Split(_, _)
Split(s, sep) ==
  IF \A k \in 1..Len(s) : s[k] # sep THEN <<s>>
  ELSE LET k == CHOOSE k \in 1..Len(s) :
                  s[k] = sep /\ \A j \in 1..(k - 1) : s[j] # sep
       IN  <<SubSeq(s, 1, k - 1)>> \o Split(Drop(s, k), sep)

\* blobToBase64: what the promise resolves with, url.split(',')[1]; a URL
\* without a comma would give undefined, here the empty text
blobToBase64(blob) ==
  LET pieces == Split(ReadAsDataURL(blob), ",") IN
    IF Len(pieces) >= 2 THEN pieces[2] ELSE <<>>

\* URL.createObjectURL(file)
createObjectURL(file) == [blob |-> file]

\* handleFile: an image is previewed at once and read in the background
handleFile(file) ==
  IF StartsWith(file.type, IMAGE_PREFIX)
  THEN /\ imgSrc' = Just(createObjectURL(file))
       /\ readers' = readers \cup {file}
       /\ UNCHANGED base64data
  ELSE UNCHANGED files

\* the change listener of the file input; a disabled input opens no dialog
UploadChange(file) ==
  /\ ~MicrotaskPending
  /\ ~uploadDisabled
  /\ handleFile(file)
  /\ UNCHANGED <<prompt, keys, ui, modal, att, hist>>

\* the drop listener of the drop zone, which is never disabled
DropFile(file) ==
  /\ ~MicrotaskPending
  /\ handleFile(file)
  /\ UNCHANGED <<prompt, keys, ui, modal, att, hist>>

\* reader.onload of a read in flight: the promise of blobToBase64 resolves
\* and the then-callback of handleFile assigns base64data
ReaderLoad(file) ==
  /\ ~MicrotaskPending
  /\ file \in readers
  /\ base64data' = blobToBase64(file)
  /\ readers' = readers \ {file}
  /\ UNCHANGED <<prompt, keys, ui, modal, imgSrc, att, hist>>

NextUpload ==
  \/ \E v \in PromptTexts : PromptInput(v)
  \/ \E file \in Files : UploadChange(file)
  \/ \E file \in Files : DropFile(file)
  \/ \E file \in Files : ReaderLoad(file)
  \/ GenerateClick
  \/ \E a \in Attempts : GenerateResume(a)
  \/ \E a \in Attempts : GenerateVideosReject(a, NET_ERR_DOWN)

SpecUpload == Init /\ [][NextUpload]_vars

(***************************************************************************)
(* Properties.                                                             *)
(***************************************************************************)
\* a text is empty or holds only whitespace
Blank(p) == \A k \in 1..Len(p) : p[k] \in {" ", "\t", "\n"}

\* invocation a is inside the try block of generateContent
InTry(a) ==
  att[a].pc \in {"delay", "getVideosOperation", "fetch", "text", "blob"}

\* generateContent of invocation a has settled (generate() may have returned)
Settled(a) == att[a].pc \in {"settled", "idle"}

\* C1: once setInterval has run, every exit of generateContent runs
\* clearInterval exactly once: the interval is active exactly between its
\* start and the exit, there is never a second clearInterval, and in no
\* state after generateContent has settled is the interval active.
C1_IntervalClearedExactlyOnce ==
  \A a \in Attempts :
    /\ hist[a].starts <= 1
    /\ hist[a].clears <= hist[a].starts
    /\ att[a].intervalActive <=> (hist[a].starts = 1 /\ hist[a].clears = 0)
    /\ InTry(a) => hist[a].starts = 1
    /\ att[a].pc = "settled" => hist[a].clears = hist[a].starts
    /\ Settled(a) => ~att[a].intervalActive

\* C1 witness: generateContent has settled with an error thrown inside the
\* try block, the interval started and cleared once.
C1_Witness ==
  \E a \in Attempts :
    /\ att[a].pc = "settled"
    /\ ~att[a].outcome.ok
    /\ hist[a].starts = 1
    /\ hist[a].clears = 1

\* C2: clearInterval runs in the step in which the try block is left, that
\* is after the poll loop has ended (a done operation was received or an
\* error was thrown), and before generate() writes its own outcome; after
\* generate() has written the outcome, no progress message is delivered.
C2_CancelledBeforeOutcome ==
  [][\A a \in Attempts :
       /\ hist'[a].clears > hist[a].clears =>
            /\ hist'[a].starts = 1
            /\ att'[a].pc = "settled"
            /\ hist'[a].doneSeen \/ ~att'[a].outcome.ok
       /\ (att[a].pc = "settled" /\ att'[a].pc = "idle") =>
            /\ ~att[a].intervalActive
            /\ statusText' = FinalStatus(att[a].outcome)
       /\ att[a].pc = "idle" => hist'[a].callbacks <= hist[a].callbacks
    ]_vars

\* C2 witness: progress messages were delivered, the interval is cleared,
\* and generate() has not yet written the outcome.
C2_Witness ==
  \E a \in Attempts :
    /\ att[a].pc = "settled"
    /\ hist[a].callbacks >= 1
    /\ hist[a].clears = 1
    /\ ~att[a].intervalActive

\* C3 as claimed: once an operation with done = true has been received, the
\* status callback is not invoked again for that attempt.
C3_NoCallbackAfterDone ==
  [][\A a \in Attempts :
       hist[a].doneSeen => hist'[a].callbacks <= hist[a].callbacks]_vars

\* C3 amended: after a done operation the status callback runs only while a
\* download is awaited (fetch, res.text() or res.blob()), and never once
\* generateContent has settled.
C3_CallbackOnlyUntilSettled ==
  [][\A a \in Attempts :
       hist'[a].callbacks > hist[a].callbacks =>
         /\ ~Settled(a)
         /\ hist[a].doneSeen => att[a].pc \in {"fetch", "text", "blob"}
    ]_vars

\* C3 witness: the first operation came back done (no poll, so the interval
\* started when the loop had already ended), a progress message was
\* delivered all the same, and generateContent has settled.
C3_Witness ==
  \E a \in Attempts :
    /\ att[a].pc = "settled"
    /\ hist[a].doneSeen
    /\ hist[a].pendings = 0
    /\ hist[a].callbacks = 1

\* the downloadFile calls materializing all of vs, in order, with key k
Materialized(vs, k) ==
  [j \in 1..Len(vs) |->
     [objectURL |-> DownloadUrl(UriDecoded(vs[j]), k), filename |-> j - 1]]

\* C4: N Pending answers, then a done operation with K >= 1 videos, and no
\* download failing: generateContent has polled once per Pending answer,
\* has called downloadFile for the K videos in the provider's order with
\* the names video0..video(K-1), the playback element shows the last one,
\* and the promise resolves.
C4_AllResultsInOrder ==
  \A a \in Attempts :
    ( /\ att[a].pc = "settled"
      /\ att[a].operation.done
      /\ att[a].operation.videos # Nothing
      /\ Len(att[a].operation.videos[1]) >= 1
      /\ hist[a].failedAt = <<>> )
    => LET vs == att[a].operation.videos[1] IN
         /\ att[a].outcome.ok
         /\ hist[a].polls = hist[a].pendings
         /\ hist[a].downloaded = Materialized(vs, att[a].apiKey)
         /\ [j \in 1..Len(hist[a].fetched) |-> hist[a].fetched[j].i]
              = [j \in 1..Len(vs) |-> j - 1]
         /\ videoSrc = Just(Materialized(vs, att[a].apiKey)[Len(vs)].objectURL)
         /\ videoDisplay = "block"

\* C4 witness: MaxPolls Pending answers, then MaxVideos videos, all
\* downloaded.
C4_Witness ==
  \E a \in Attempts :
    /\ att[a].pc = "settled"
    /\ att[a].outcome.ok
    /\ hist[a].pendings = MaxPolls
    /\ Len(hist[a].downloaded) = MaxVideos

\* C5 as claimed: when the operation is done and carries the provider's
\* error, generateContent rejects with an error whose message carries the
\* code and the message of that ErrorInfo.
C5_FailedCarriesErrorInfo ==
  \A a \in Attempts :
    ( /\ att[a].pc = "settled"
      /\ att[a].operation.done
      /\ att[a].operation.error # Nothing )
    => /\ ~att[a].outcome.ok
       /\ Includes(att[a].outcome.message,
                   Digits(att[a].operation.error[1].code))
       /\ Includes(att[a].outcome.message,
                   att[a].operation.error[1].message)

\* C6: a done operation with generatedVideos undefined or empty makes
\* generateContent reject with 'No videos generated', and fetch was not
\* called.
C6_EmptyResultNoDownload ==
  \A a \in Attempts :
    ( /\ att[a].pc = "settled"
      /\ att[a].operation.done
      /\ \/ att[a].operation.videos = Nothing
         \/ Len(att[a].operation.videos[1]) = 0 )
    => /\ att[a].outcome = [ok |-> FALSE, message |-> ERR_NO_VIDEOS]
       /\ hist[a].fetched = <<>>
       /\ hist[a].fetches = 0
       /\ hist[a].downloaded = <<>>

\* C6 witness: the operation is done with an empty list and generateContent
\* has rejected.
C6_Witness ==
  \E a \in Attempts :
    /\ att[a].pc = "settled"
    /\ att[a].operation.done
    /\ att[a].operation.videos = Just(<<>>)
    /\ ~att[a].outcome.ok

\* the ordinals 0..n-1 in order
Ordinals(n) == [j \in 1..n |-> j - 1]

\* C7: the videos are retrieved strictly one at a time and in order: at
\* most one retrieval is in flight; retrievals are issued for the indices
\* 0, 1, 2, ... in this order, the one for index n only when the videos
\* 0..n-1 have been handed to downloadFile (in order) and none has failed;
\* when the retrieval of index j fails, exactly the videos 0..j-1 have been
\* handed to downloadFile and nothing beyond index j was ever requested.
C7_OneRetrievalAtATime ==
  [][\A a \in Attempts :
       LET fetched    == [j \in 1..Len(hist'[a].fetched) |-> hist'[a].fetched[j].i]
           downloaded == [j \in 1..Len(hist'[a].downloaded) |->
                            hist'[a].downloaded[j].filename]
       IN  /\ hist'[a].fetches <= 1
           /\ fetched = Ordinals(Len(fetched))
           /\ Len(hist'[a].fetched) > Len(hist[a].fetched) =>
                /\ Len(hist'[a].fetched) = Len(hist[a].fetched) + 1
                /\ downloaded = Ordinals(Len(fetched) - 1)
                /\ hist'[a].failedAt = <<>>
           /\ Len(hist'[a].failedAt) > Len(hist[a].failedAt) =>
                LET j == hist'[a].failedAt[Len(hist'[a].failedAt)] IN
                  /\ downloaded = Ordinals(j)
                  /\ fetched = Ordinals(j + 1)
    ]_vars

\* C7 in src/index.tsx: the second of two retrievals has failed after the
\* first video was handed to downloadFile.
C7_IndexWitness ==
  \E a \in Attempts :
    /\ hist[a].failedAt = <<1>>
    /\ Len(hist[a].downloaded) = 1

\* C8: a click on generate with an empty or whitespace-only prompt writes
\* the prompt-required message and nothing else: no getApiKey, no
\* generateVideos, no timer, no invocation state, the controls as they were.
C8_BlankPromptSubmitsNothing ==
  [][(GenerateClick /\ Blank(prompt)) =>
       /\ statusText' = TXT_ENTER_PROMPT
       /\ att' = att
       /\ hist' = hist
       /\ generateDisabled' = generateDisabled
       /\ uploadDisabled' = uploadDisabled
       /\ promptDisabled' = promptDisabled
    ]_vars

\* C8 witness: the prompt is whitespace only and the prompt-required
\* message is shown, nothing running, the controls enabled.
C8_Witness ==
  /\ prompt # <<>>
  /\ Blank(prompt)
  /\ statusText = TXT_ENTER_PROMPT
  /\ \A a \in Attempts : att[a].pc = "idle" /\ hist[a] = NoHistory
  /\ ~generateDisabled

\* C9: whenever no invocation of generate() is running, the generate
\* button, the file input and the prompt field are enabled.
C9_ControlsEnabledWhenIdle ==
  (\A a \in Attempts : att[a].pc = "idle") =>
    /\ ~generateDisabled
    /\ ~uploadDisabled
    /\ ~promptDisabled

\* C9 witness: an attempt has ended in a failed download (its message is
\* the final status) and the controls are enabled again.
C9_Witness ==
  /\ \A a \in Attempts : att[a].pc = "idle"
  /\ statusText = ERR_DOWNLOAD_PREFIX \o DIGITS_404 \o <<" ">> \o STATUS_TEXT_404
  /\ ~generateDisabled /\ ~uploadDisabled /\ ~promptDisabled

\* C10: an attempt calls generateVideos once, and only in a click on the
\* enabled generate button; at most one provider call is in flight; a status
\* query is issued only when none is in flight, the 1 s delay has run out
\* and no done operation has been received; an invocation that has returned
\* makes no provider call.
C10_OneSubmissionSerialPolls ==
  [][\A a \in Attempts :
       /\ hist'[a].submits <= 1
       /\ hist'[a].queries <= 1
       /\ hist'[a].submits > hist[a].submits =>
            /\ GenerateClick
            /\ ~generateDisabled
            /\ \A b \in Attempts : att[b].pc = "idle"
       /\ hist'[a].polls > hist[a].polls =>
            /\ hist[a].queries = 0
            /\ att[a].pc = "delay"
            /\ att[a].delayLeft = 0
            /\ ~hist[a].doneSeen
       /\ (att[a].pc = "idle" /\ att'[a].pc = "idle") =>
            /\ hist[a] = NoHistory
            /\ hist'[a] = NoHistory
    ]_vars

\* C10 witness: the second status query of an attempt is in flight.
C10_Witness ==
  \E a \in Attempts :
    /\ att[a].pc = "getVideosOperation"
    /\ hist[a].submits = 1
    /\ hist[a].polls = 2
    /\ hist[a].queries = 1

\* invocation a of generate() is in flight: it has been called and has not
\* returned
InFlight(a) == att[a].pc # "idle"

\* C11: at any time at most one generation attempt is in flight and at most
\* one progress timer is active, and a progress timer is active only while
\* the attempt that started it is inside its try block: no timer is left
\* over when no attempt is in flight, so a new attempt never coexists with
\* the timer of an earlier one.
C11_OneAttemptOneTimer ==
  /\ Cardinality({a \in Attempts : InFlight(a)}) <= 1
  /\ Cardinality({a \in Attempts : att[a].intervalActive}) <= 1
  /\ \A a \in Attempts : att[a].intervalActive => InTry(a)
  /\ \A a \in Attempts : InFlight(a) => generateDisabled

\* C11 witness: a second attempt is in flight with its own timer running,
\* after an earlier attempt has downloaded a video and concluded
C11_Witness ==
  \E a \in Attempts :
    /\ InFlight(a)
    /\ att[a].intervalActive
    /\ hist[a].starts = 1
    /\ hist[a].clears = 0
    /\ hist[a].downloaded = <<>>
    /\ videoSrc # Nothing
    /\ videoDisplay = "none"

\* generate() of either page script handles the failure of invocation a
HandlesFailure(a) ==
  /\ att[a].pc = "settled"
  /\ ~att[a].outcome.ok
  /\ GenerateResume(a) \/ LegacyGenerateResume(a)

\* the message of the error invocation a failed with parses as
\* {error: {code, message}} with a code in codes
Structured(a, codes) ==
  /\ JSONParseError(att[a].outcome.message) # Nothing
  /\ JSONParseError(att[a].outcome.message)[1].code \in codes

\* C12: when the workflow fails with a message that parses as
\* {error: {code: 429, message}}, the quota banner is shown and the status
\* line carries no generic message: it is empty or holds the dedicated quota
\* text, and so neither the serialized payload nor its message member; the
\* key modal is not opened.
C12_Structured429IsQuota ==
  [][\A a \in Attempts :
       HandlesFailure(a) /\ Structured(a, {429}) =>
         /\ quotaDisplay' = "block"
         /\ statusText' \in {<<>>, TXT_QUOTA}
         /\ statusText' # att[a].outcome.message
         /\ statusText' # JSONParseError(att[a].outcome.message)[1].message
         /\ UNCHANGED modal
    ]_vars

\* C12 witness: generateContent has failed with the payload of a 429 after
\* the provider had accepted the request and a poll was made
C12_Witness ==
  \E a \in Attempts :
    /\ att[a].pc = "settled"
    /\ ~att[a].outcome.ok
    /\ att[a].outcome.message = PROVIDER_ERR_429
    /\ Structured(a, {429})
    /\ hist[a].polls = 1
    /\ quotaDisplay = "none"

\* C13: when the workflow fails with a message that parses as
\* {error: {code: 400, message}}, the key modal is opened and the quota
\* banner is not shown.
C13_Structured400OpensModal ==
  [][\A a \in Attempts :
       HandlesFailure(a) /\ Structured(a, {400}) =>
         /\ modalHidden' = FALSE
         /\ quotaDisplay' # "block"
    ]_vars

\* C14: when the workflow fails with a message that parses as
\* {error: {code, message}} with a code other than 429 and 400, the status
\* line shows the message member, not the serialized payload, the quota
\* banner is not shown and the key modal is not opened.
C14_StructuredOtherShowsMessage ==
  [][\A a \in Attempts :
       HandlesFailure(a) /\ Structured(a, (0..999) \ {429, 400}) =>
         /\ statusText' = JSONParseError(att[a].outcome.message)[1].message
         /\ statusText' # att[a].outcome.message
         /\ quotaDisplay' # "block"
         /\ UNCHANGED modal
    ]_vars

\* a raw message contains "429" or, in any case, "quota"
HasQuotaToken(m) ==
  \/ \E k \in 1..(Len(m) - 2) : SubSeq(m, k, k + 2) = <<"4","2","9">>
  \/ \E k \in 1..(Len(m) - 4) :
       ToLowerCase(SubSeq(m, k, k + 4)) = <<"q","u","o","t","a">>

\* a raw message contains "400" or, in any case, "api key"
HasKeyToken(m) ==
  \/ \E k \in 1..(Len(m) - 2) : SubSeq(m, k, k + 2) = <<"4","0","0">>
  \/ \E k \in 1..(Len(m) - 6) :
       ToLowerCase(SubSeq(m, k, k + 6)) = <<"a","p","i"," ","k","e","y">>

\* what generate() of src/index.tsx shows for a failure it takes for
\* quota-exceeded, for invalid-request, and for a failure it shows as text
ShowsQuota ==
  /\ quotaDisplay' = "block"
  /\ statusText' = TXT_QUOTA
  /\ UNCHANGED modalHidden

ShowsInvalidRequest ==
  /\ modalHidden' = FALSE
  /\ statusText' = TXT_REQUEST_FAILED
  /\ quotaDisplay' # "block"

ShowsText(t) ==
  /\ statusText' = t
  /\ quotaDisplay' # "block"
  /\ UNCHANGED modal

\* C15 as stated: a failure whose message does not parse as structured data
\* is classified by the tokens of the raw message, quota first, and a
\* message without a token is shown verbatim in the status line, with
\* neither banner nor modal.
C15_UnparsedBySubstring ==
  [][\A a \in Attempts :
       LET m == att[a].outcome.message IN
         /\ att[a].pc = "settled"
         /\ ~att[a].outcome.ok
         /\ GenerateResume(a)
         /\ JSONParseError(m) = Nothing
         => IF HasQuotaToken(m) THEN ShowsQuota
            ELSE IF HasKeyToken(m) THEN ShowsInvalidRequest
            ELSE ShowsText(m)
    ]_vars

\* C15 amended: the same, but an empty message is not shown verbatim: the
\* status line then shows "An unknown error occurred."
C15_UnparsedBySubstringOrUnknown ==
  [][\A a \in Attempts :
       LET m == att[a].outcome.message IN
         /\ att[a].pc = "settled"
         /\ ~att[a].outcome.ok
         /\ GenerateResume(a)
         /\ JSONParseError(m) = Nothing
         => IF HasQuotaToken(m) THEN ShowsQuota
            ELSE IF HasKeyToken(m) THEN ShowsInvalidRequest
            ELSE IF m = <<>> THEN ShowsText(TXT_UNKNOWN_ERROR)
            ELSE ShowsText(m)
    ]_vars

\* C15 witness: generate() has shown "network down" verbatim and returned,
\* with neither banner nor modal
C15_Witness ==
  /\ statusText = NET_ERR_DOWN
  /\ quotaDisplay = "none"
  /\ modalHidden
  /\ ~generateDisabled
  /\ \A a \in Attempts : att[a].pc = "idle"

\* no access credential resolves: nothing stored, no environment credential
NoCredential == storedKey = Nothing /\ envKey = Nothing

\* C16: with no credential, a click on Generate with a prompt makes
\* generateContent throw 'API key not found.' at once: no generateVideos
\* call, no provider call in flight, no progress timer, and the key modal
\* open; when generate() has then handled the error, the modal is still
\* visible, the controls are enabled again and still nothing was submitted.
C16_MissingCredentialIsFatal ==
  [][\A a \in Attempts :
       /\ (GenerateClick /\ ~Blank(prompt) /\ NoCredential
             /\ att[a].pc = "idle" /\ att'[a].pc # "idle"
           => /\ att'[a].pc = "settled"
              /\ att'[a].outcome = Throw(ERR_KEY_NOT_FOUND)
              /\ hist'[a].keyLookups = 1
              /\ hist'[a].submits = 0
              /\ hist'[a].queries = 0
              /\ hist'[a].starts = 0
              /\ ~att'[a].intervalActive
              /\ modalHidden' = FALSE)
       /\ (GenerateResume(a) /\ att[a].outcome = Throw(ERR_KEY_NOT_FOUND)
           => /\ hist[a].submits = 0
              /\ hist[a].starts = 0
              /\ modalHidden' = FALSE
              /\ generateDisabled' = FALSE
              /\ uploadDisabled' = FALSE
              /\ promptDisabled' = FALSE
              /\ att'[a].pc = "idle"
              /\ ~att'[a].intervalActive)
    ]_vars

\* C16 witness: generate() has handled the missing credential: the modal is
\* open over the "Request failed" status and the controls are enabled
C16_Witness ==
  /\ NoCredential
  /\ ~modalHidden
  /\ statusText = TXT_REQUEST_FAILED
  /\ ~generateDisabled
  /\ ~uploadDisabled
  /\ ~promptDisabled
  /\ \A a \in Attempts : att[a].pc = "idle"

\* C17: the stored credential is never empty or whitespace-only.  Only the
\* save operation changes it: saving an empty or whitespace-only value
\* removes the entry whatever was stored (so twice is the same as once),
\* saving anything else stores that value without its surrounding
\* whitespace.  An attempt that passes the credential check uses the stored
\* key if there is one and the environment credential otherwise.
C17_StoredKeyNeverBlank ==
  [][/\ storedKey = Nothing \/ ~Blank(storedKey[1])
     /\ storedKey' = Nothing \/ ~Blank(storedKey'[1])
     /\ storedKey' # storedKey => SaveKeyClick
     /\ envKey' = envKey
     /\ SaveKeyClick =>
          /\ Blank(apiKeyInput) => storedKey' = Nothing
          /\ ~Blank(apiKeyInput) =>
               /\ storedKey' # Nothing
               /\ storedKey'[1] # <<>>
               /\ ~IsWhitespace(storedKey'[1][1])
               /\ ~IsWhitespace(storedKey'[1][Len(storedKey'[1])])
               /\ \E k \in 0..Len(apiKeyInput) :
                    SubSeq(apiKeyInput, k + 1, k + Len(storedKey'[1]))
                      = storedKey'[1]
     /\ \A a \in Attempts :
          GenerateClick /\ att[a].pc = "idle" /\ att'[a].pc = "generateVideos"
          => att'[a].apiKey =
               IF storedKey # Nothing THEN storedKey[1] ELSE envKey[1]
    ]_vars

\* C17 witness: a whitespace-only value was saved: the stored
\* entry is gone and the environment credential is what remains
C17_Witness ==
  /\ storedKey = Nothing
  /\ envKey # Nothing
  /\ apiKeyInput = <<" ">>
  /\ statusText = TXT_KEY_REMOVED
  /\ modalHidden

\* C18: the k-th invocation of the status callback within one attempt (k
\* counted from 0) writes GENERATION_MESSAGES[k mod 7]: the seven messages
\* in list order, the first again after the last; the count starts from 0
\* in every attempt.
C18_MessagesCycleInOrder ==
  [][\A a \in Attempts :
       hist'[a].callbacks = hist[a].callbacks + 1 =>
         LET k == hist[a].callbacks IN
           /\ hist[a].starts = 1
           /\ Len(GENERATION_MESSAGES) = 7
           /\ statusText' = GENERATION_MESSAGES[(k % 7) + 1]
           /\ k = 0 => statusText' = MSG_WARMING
           /\ k = 6 => statusText' = MSG_ALMOST
           /\ k = 7 => statusText' = MSG_WARMING
    ]_vars

\* C18 witness: the callback has run eight times in one attempt: after the
\* seventh message the first one is shown again
C18_Witness ==
  \E a \in Attempts :
    /\ hist[a].callbacks = 8
    /\ att[a].intervalActive
    /\ statusText = MSG_WARMING

\* C19: when the poll loop resolves, that is when an operation with done =
\* true arrives, after N polls were answered Pending, the status callback
\* has been invoked at least N * POLL_DELAY \div MESSAGE_INTERVAL times
\* (one tick is one second; a provider call takes zero or more ticks).
C19_ProgressKeepsPace ==
  [][\A a \in Attempts :
       ~hist[a].doneSeen /\ hist'[a].doneSeen =>
         LET N == IF hist'[a].polls = 0 THEN 0 ELSE hist'[a].polls - 1 IN
           /\ hist'[a].pendings = IF hist'[a].polls = 0 THEN 0 ELSE N + 1
           /\ hist'[a].callbacks >= (N * POLL_DELAY) \div MESSAGE_INTERVAL
    ]_vars

\* C19 witness: the loop has resolved after eight polls answered Pending,
\* with exactly two invocations of the callback
C19_Witness ==
  \E a \in Attempts :
    /\ hist[a].doneSeen
    /\ hist[a].polls = 9
    /\ hist[a].pendings = 9
    /\ hist[a].callbacks = 2
    /\ hist[a].clears = 1

\* C20: whenever generate() submits a request, the image payload it passes
\* is that of the file shown in the preview, the most recently accepted
\* image (and empty when no image was accepted): never empty and never the
\* payload of an earlier file while a later file has been accepted.
C20_SubmitsPreviewedImage ==
  [][\A a \in Attempts :
       GenerateClick /\ att[a].pc = "idle" /\ hist'[a].submits = 1 =>
         att'[a].imageBytes =
           IF imgSrc = Nothing THEN <<>> ELSE imgSrc[1].blob.base64
    ]_vars

====
